---- MODULE Spec2Model ----
(***************************************************************************)
(* A model of post.py, the CalculiX OUTPUT=3D displacement post-processor. *)
(*                                                                         *)
(* Text is modelled at character level: a string is a sequence of          *)
(* one-character strings, and a file is its text, split into lines the way *)
(* readlines() splits it.  Python's indexing, slicing,                     *)
(* str.strip, str.split, int(), float() and the format specifications      *)
(* used by splice are operators that compute what Python computes.         *)
(*                                                                         *)
(* A float is modelled as an exact decimal: [k, neg, m, e] with k one of   *)
(* "fin", "inf", "nan", and for "fin" the value (-1)^neg * m * 10^e, m     *)
(* without trailing zeros.  The inputs are chosen so that no value lies    *)
(* at a decimal rounding tie that the binary representation would break.   *)
(***************************************************************************)
EXTENDS Integers, Sequences, FiniteSets, TLC

VARIABLES
  argv,       \* sys.argv: the script name followed by the arguments
  fs,         \* the file system: path -> text
  pc,         \* the position of main
  orig_disp,  \* main's local orig_disp
  expansion,  \* main's local expansion
  new,        \* main's local new
  raised,     \* the uncaught exception, [type, arg], or NoExc
  exitcode,   \* the exit status passed to sys.exit, or -1 while running
  stdout,     \* what has been printed
  log,        \* the calls main has made and the writes, in order
  fs0         \* the file system when main was entered

vars ==
  <<argv, fs, pc, orig_disp, expansion, new, raised, exitcode, stdout, log, fs0>>

----------------------------------------------------------------------------
(* Python's sequence and string primitives                                 *)

\* tuple/list index: seq[i], negative i counting from the end
PyInRange(seq, i) == i >= -Len(seq) /\ i < Len(seq)

PyGet(seq, i) == IF i >= 0 THEN seq[i + 1] ELSE seq[Len(seq) + i + 1]

PyClamp(n, i) == IF i < 0 THEN (IF i + n < 0 THEN 0 ELSE i + n)
                 ELSE (IF i > n THEN n ELSE i)

\* seq[a:b]
PySlice(seq, a, b) ==
  LET lo == PyClamp(Len(seq), a)
      hi == PyClamp(Len(seq), b)
  IN  IF lo < hi THEN SubSeq(seq, lo + 1, hi) ELSE <<>>

\* F(e), with e evaluated once and F applied to its value
Apply(F(_), e) == CHOOSE r \in {F(v) : v \in {e}} : TRUE

IsSpace(c) == c \in {" ", "\t", "\n", "\r", "\f"}

\* the first index from i on of a character that is no whitespace, or
\* Len(s) + 1
RECURSIVE SkipSpace(_, _)
SkipSpace(s, i) == IF i > Len(s) \/ ~IsSpace(s[i]) THEN i ELSE SkipSpace(s, i + 1)

\* the first index from i on of a whitespace character, or Len(s) + 1
RECURSIVE SkipWord(_, _)
SkipWord(s, i) == IF i > Len(s) \/ IsSpace(s[i]) THEN i ELSE SkipWord(s, i + 1)

\* the last index up to i of a character that is no whitespace, or 0
RECURSIVE SkipSpaceBack(_, _)
SkipSpaceBack(s, i) == IF i < 1 \/ ~IsSpace(s[i]) THEN i
                       ELSE SkipSpaceBack(s, i - 1)

\* str.strip()
Strip(s) == SubSeq(s, SkipSpace(s, 1), SkipSpaceBack(s, Len(s)))

\* the words of s from index i on
RECURSIVE SplitFrom(_, _)
SplitFrom(s, i) ==
  IF i > Len(s) THEN <<>>
  ELSE IF IsSpace(s[i]) THEN SplitFrom(s, i + 1)
  ELSE Apply(LAMBDA b : <<SubSeq(s, i, b - 1)>> \o SplitFrom(s, b), SkipWord(s, i))

\* str.split(): the maximal runs of non-whitespace characters
Split(s) == Apply(LAMBDA t : SplitFrom(t, 1), s)

\* whether sub occurs in s at offset i
OccursAt(s, sub, i) == \A j \in 1..Len(sub) : s[i + j] = sub[j]

\* sub in s
Contains(s, sub) == \E i \in 0..(Len(s) - Len(sub)) : OccursAt(s, sub, i)

\* s.startswith(p)
StartsWith(s, p) == Len(s) >= Len(p) /\ OccursAt(s, p, 0)

SetMin(S) == CHOOSE x \in S : \A y \in S : x <= y

\* [n for n, ln in enumerate(lines) if P(ln)], as the set of 0-based indices
IndicesOf(lines, P(_)) == {n \in 0..(Len(lines) - 1) : P(lines[n + 1])}

StripAll(lines) == [i \in 1..Len(lines) |-> Strip(lines[i])]

----------------------------------------------------------------------------
(* int() and float()                                                       *)

Digits == {"0", "1", "2", "3", "4", "5", "6", "7", "8", "9"}

DigitVal(c) ==
  CASE c = "0" -> 0 [] c = "1" -> 1 [] c = "2" -> 2 [] c = "3" -> 3
    [] c = "4" -> 4 [] c = "5" -> 5 [] c = "6" -> 6 [] c = "7" -> 7
    [] c = "8" -> 8 [] c = "9" -> 9

DigitChar(d) ==
  CASE d = 0 -> "0" [] d = 1 -> "1" [] d = 2 -> "2" [] d = 3 -> "3"
    [] d = 4 -> "4" [] d = 5 -> "5" [] d = 6 -> "6" [] d = 7 -> "7"
    [] d = 8 -> "8" [] d = 9 -> "9"

AllDigits(s) == s # <<>> /\ \A i \in 1..Len(s) : s[i] \in Digits

RECURSIVE DigitsVal(_)
DigitsVal(s) == IF s = <<>> THEN 0
                ELSE DigitsVal(SubSeq(s, 1, Len(s) - 1)) * 10 + DigitVal(s[Len(s)])

HasSign(s) == s # <<>> /\ Head(s) \in {"+", "-"}

Unsigned(s) == IF HasSign(s) THEN Tail(s) ELSE s

IsNeg(s) == s # <<>> /\ Head(s) = "-"

\* int(tok) for a whitespace-free token: an optional sign and decimal digits
IntOk(tok) == AllDigits(Unsigned(tok))

IntVal(tok) == IF IsNeg(tok) THEN 0 - DigitsVal(Unsigned(tok))
               ELSE DigitsVal(Unsigned(tok))

RECURSIVE Pow10(_)
Pow10(n) == IF n <= 0 THEN 1 ELSE 10 * Pow10(n - 1)

RECURSIVE NumDigits(_)
NumDigits(n) == IF n < 10 THEN 1 ELSE 1 + NumDigits(n \div 10)

Lower(c) ==
  CASE c = "N" -> "n" [] c = "A" -> "a" [] c = "I" -> "i" [] c = "F" -> "f"
    [] c = "E" -> "e" [] OTHER -> c

LowerAll(s) == [i \in 1..Len(s) |-> Lower(s[i])]

Fin(neg, m, e) == [k |-> "fin", neg |-> neg, m |-> m, e |-> e]

Inf(neg) == [k |-> "inf", neg |-> neg, m |-> 0, e |-> 0]

NaN == [k |-> "nan", neg |-> FALSE, m |-> 0, e |-> 0]

\* the canonical decimal: no trailing zeros in m, and 0 * 10^0 for zero
RECURSIVE Normal(_, _, _)
Normal(neg, m, e) ==
  IF m = 0 THEN Fin(neg, 0, 0)
  ELSE IF m % 10 = 0 THEN Normal(neg, m \div 10, e + 1)
  ELSE Fin(neg, m, e)

\* the position of the exponent marker in a lower-cased token, or 0
ExpPos(s) == IF \E i \in 1..Len(s) : s[i] = "e"
             THEN SetMin({i \in 1..Len(s) : s[i] = "e"}) ELSE 0

DotPos(s) == IF \E i \in 1..Len(s) : s[i] = "."
             THEN SetMin({i \in 1..Len(s) : s[i] = "."}) ELSE 0

Mantissa(s) == IF ExpPos(s) = 0 THEN s ELSE SubSeq(s, 1, ExpPos(s) - 1)

Exponent(s) == SubSeq(s, ExpPos(s) + 1, Len(s))

IntPart(mant) == IF DotPos(mant) = 0 THEN mant ELSE SubSeq(mant, 1, DotPos(mant) - 1)

FracPart(mant) == IF DotPos(mant) = 0 THEN <<>>
                  ELSE SubSeq(mant, DotPos(mant) + 1, Len(mant))

AllDigitsOrEmpty(s) == \A i \in 1..Len(s) : s[i] \in Digits

MantissaOk(mant) ==
  /\ AllDigitsOrEmpty(IntPart(mant))
  /\ AllDigitsOrEmpty(FracPart(mant))
  /\ Len(IntPart(mant)) + Len(FracPart(mant)) >= 1

\* float(tok) accepts: [sign] (digits [. [digits]] | . digits) [e [sign] digits],
\* [sign] nan, [sign] inf, in either case of the letters
FloatOk(tok) ==
  LET s == LowerAll(Unsigned(tok))
  IN  \/ s = <<"n", "a", "n">>
      \/ s = <<"i", "n", "f">>
      \/ /\ MantissaOk(Mantissa(s))
         /\ ExpPos(s) # 0 => IntOk(Exponent(s))

FloatVal(tok) ==
  LET s == LowerAll(Unsigned(tok))
      mant == Mantissa(s)
      ex == IF ExpPos(s) = 0 THEN 0 ELSE IntVal(Exponent(s))
  IN  IF s = <<"n", "a", "n">> THEN NaN
      ELSE IF s = <<"i", "n", "f">> THEN Inf(IsNeg(tok))
      ELSE Normal(IsNeg(tok), DigitsVal(IntPart(mant) \o FracPart(mant)),
                  ex - Len(FracPart(mant)))

----------------------------------------------------------------------------
(* The format specifications of splice: {node:>10d} and {dx: 11.5E}        *)

RECURSIVE NatChars(_)
NatChars(n) == IF n < 10 THEN <<DigitChar(n)>>
               ELSE NatChars(n \div 10) \o <<DigitChar(n % 10)>>

RECURSIVE Spaces(_)
Spaces(n) == IF n <= 0 THEN <<>> ELSE <<" ">> \o Spaces(n - 1)

RECURSIVE Zeros(_)
Zeros(n) == IF n <= 0 THEN <<>> ELSE <<"0">> \o Zeros(n - 1)

\* right-justification in a field of at least w characters
RJust(s, w) == Spaces(w - Len(s)) \o s

NodeWidth == 10

\* {node:>10d}
FormatNode(node) ==
  RJust(IF node < 0 THEN <<"-">> \o NatChars(0 - node) ELSE NatChars(node),
        NodeWidth)

Precision == 5

FieldWidth == 11

\* the Precision + 1 significant digits of m * 10^e, rounded half to even,
\* and the decimal exponent of the first of them
SciDigits(m) ==
  LET nd == NumDigits(m)
      drop == nd - (Precision + 1)
      q == m \div Pow10(drop)
      r == m % Pow10(drop)
      up == 2 * r > Pow10(drop) \/ (2 * r = Pow10(drop) /\ q % 2 = 1)
  IN  IF drop <= 0 THEN m * Pow10(0 - drop)
      ELSE IF up THEN q + 1 ELSE q

SciExp(m, e) ==
  IF m = 0 THEN 0
  ELSE IF SciDigits(m) = Pow10(Precision + 1) THEN e + NumDigits(m)
  ELSE e + NumDigits(m) - 1

SciMant(m) ==
  LET d == IF SciDigits(m) = Pow10(Precision + 1) THEN Pow10(Precision)
           ELSE SciDigits(m)
      cs == IF m = 0 THEN Zeros(Precision + 1) ELSE NatChars(d)
  IN  <<Head(cs), ".">> \o Tail(cs)

ExpChars(x) ==
  LET a == IF x < 0 THEN 0 - x ELSE x
  IN  <<"E", IF x < 0 THEN "-" ELSE "+">>
      \o (IF a < 10 THEN <<"0">> ELSE <<>>) \o NatChars(a)

\* {v:11.5E}: the format without the space flag
FormatFloat_NoSpaceFlag(v) ==
  LET sign == IF v.neg THEN <<"-">> ELSE <<>>
      body == IF v.k = "nan" THEN <<"N", "A", "N">>
              ELSE IF v.k = "inf" THEN <<"I", "N", "F">>
              ELSE SciMant(v.m) \o ExpChars(SciExp(v.m, v.e))
  IN  RJust(sign \o body, FieldWidth)

\* {v: 11.5E}: a space or a minus sign, then the number, right-justified
FormatFloat(v) ==
  LET sign == IF v.neg THEN "-" ELSE " "
      body == IF v.k = "nan" THEN <<"N", "A", "N">>
              ELSE IF v.k = "inf" THEN <<"I", "N", "F">>
              ELSE SciMant(v.m) \o ExpChars(SciExp(v.m, v.e))
  IN  RJust(<<sign>> \o body, FieldWidth)

----------------------------------------------------------------------------
(* Files.  A file's content is its text, a sequence of characters; a path   *)
(* is the pair of the base name and the suffix appended to it.              *)

Path(base, suffix) == <<base, suffix>>

Exists(f, p) == p \in DOMAIN f

\* the index of the terminator of the line that holds index i, or Len(text)
RECURSIVE LineEnd(_, _)
LineEnd(text, i) == IF i >= Len(text) \/ text[i] = "\n" THEN i
                    ELSE LineEnd(text, i + 1)

\* the lines of the text from index i on, each with its terminator
RECURSIVE LinesFrom(_, _)
LinesFrom(text, i) ==
  IF i > Len(text) THEN <<>>
  ELSE LET n == LineEnd(text, i)
       IN  <<SubSeq(text, i, n)>> \o LinesFrom(text, n + 1)

\* dat.readlines()
ReadLines(text) == LinesFrom(text, 1)

\* newdat.writelines(total): the strings one after the other
RECURSIVE WriteLines(_)
WriteLines(total) == IF total = <<>> THEN <<>>
                     ELSE Head(total) \o WriteLines(Tail(total))

----------------------------------------------------------------------------
(* What a call yields: its return value, or the exception it raises         *)

NoArg == -1

Ok(v) == [err |-> "none", arg |-> NoArg, val |-> v]

Err(type) == [err |-> type, arg |-> NoArg, val |-> <<>>]

ErrArg(type, a) == [err |-> type, arg |-> a, val |-> <<>>]

----------------------------------------------------------------------------
(* read_displacements                                                       *)

ENERGY == <<"e", "n", "e", "r", "g", "y">>

DISPLACEMENTS ==
  <<"d", "i", "s", "p", "l", "a", "c", "e", "m", "e", "n", "t", "s">>

\* end = start - 3, with start = (index of the first "energy" line) + 2
DataEnd(energyIdx) == (energyIdx + 2) - 3

\* the data taken to start on the line after the heading
DataStart_Early(dispIdx) == dispIdx + 1

\* start = (index of the first "displacements" line) + 2
DataStart(dispIdx) == dispIdx + 2

\* ln.split()[1:]
ValueTokens(ln) == Apply(LAMBDA t : PySlice(t, 1, Len(t)), Split(ln))

\* tuple(float(j) for j in ln.split()[1:])
RowOk(ln) == \A t \in {ValueTokens(ln)} : \A j \in 1..Len(t) : FloatOk(t[j])

Row(ln) == Apply(LAMBDA t : [j \in 1..Len(t) |-> FloatVal(t[j])], ValueTokens(ln))

\* the rows of the block of a file that has both headings
Rows(lines) ==
  PySlice(lines,
          DataStart(SetMin(IndicesOf(lines, LAMBDA ln : Contains(ln, DISPLACEMENTS)))),
          DataEnd(SetMin(IndicesOf(lines, LAMBDA ln : Contains(ln, ENERGY)))))

\* read_displacements on the stripped lines of the file
displacements_of(lines) ==
  IF \/ IndicesOf(lines, LAMBDA ln : Contains(ln, ENERGY)) = {}
     \/ IndicesOf(lines, LAMBDA ln : Contains(ln, DISPLACEMENTS)) = {}
    THEN Err("IndexError")
  ELSE Apply(LAMBDA rows :
               IF \E i \in 1..Len(rows) : ~RowOk(rows[i]) THEN Err("ValueError")
               ELSE Ok([i \in 1..Len(rows) |-> Row(rows[i])]),
             Rows(lines))

read_displacements(f, base) ==
  IF ~Exists(f, Path(base, ".dat")) THEN Err("FileNotFoundError")
  ELSE Apply(displacements_of, StripAll(ReadLines(f[Path(base, ".dat")])))

----------------------------------------------------------------------------
(* read_expansion                                                           *)

ELEMENT == <<"E", "L", "E", "M", "E", "N", "T">>

\* tuple(int(i) for i in line.split())
IntsOk(line) == \A t \in {Split(line)} : \A j \in 1..Len(t) : IntOk(t[j])

Ints(line) == Apply(LAMBDA t : [j \in 1..Len(t) |-> IntVal(t[j])], Split(line))

\* the offsets, from the marker line, of the lines a record is read from
OrigOffset == 1

\* the first half of new read from the line right after orig
NewOffsetA_Next == OrigOffset + 1

NewOffsetA == 3

NewOffsetB == 4

\* the first exception raised while the record of the marker at index i is
\* built, in the order the loop body evaluates, or "none"
RecordErr(lines, i) ==
  IF Len(Split(PyGet(lines, i))) < 2 THEN "IndexError"
  ELSE IF ~IntOk(Split(PyGet(lines, i))[2]) THEN "ValueError"
  ELSE IF ~PyInRange(lines, i + OrigOffset) THEN "IndexError"
  ELSE IF ~IntsOk(PyGet(lines, i + OrigOffset)) THEN "ValueError"
  ELSE IF ~PyInRange(lines, i + NewOffsetA) THEN "IndexError"
  ELSE IF ~IntsOk(PyGet(lines, i + NewOffsetA)) THEN "ValueError"
  ELSE IF ~PyInRange(lines, i + NewOffsetB) THEN "IndexError"
  ELSE IF ~IntsOk(PyGet(lines, i + NewOffsetB)) THEN "ValueError"
  ELSE "none"

Record(lines, i) ==
  [element |-> IntVal(Split(PyGet(lines, i))[2]),
   orig |-> Ints(PyGet(lines, i + OrigOffset)),
   new |-> Ints(PyGet(lines, i + NewOffsetA))
             \o Ints(PyGet(lines, i + NewOffsetB))]

\* the elements of a set of integers in ascending order
RECURSIVE Sorted(_)
Sorted(S) == IF S = {} THEN <<>>
             ELSE <<SetMin(S)>> \o Sorted(S \ {SetMin(S)})

\* the loop of read_expansion over the ascending marker indices
records_at(lines, indices) ==
  Apply(LAMBDA errs :
          IF \E k \in 1..Len(errs) : errs[k] # "none"
            THEN Err(errs[SetMin({k \in 1..Len(errs) : errs[k] # "none"})])
          ELSE Ok([k \in 1..Len(indices) |-> Record(lines, indices[k])]),
        [k \in 1..Len(indices) |-> RecordErr(lines, indices[k])])

\* read_expansion on the stripped lines of the file
expansion_of(lines) ==
  Apply(LAMBDA indices : records_at(lines, indices),
        Sorted(IndicesOf(lines, LAMBDA ln : StartsWith(ln, ELEMENT))))

read_expansion(f, base) ==
  IF ~Exists(f, Path(base, ".12d")) THEN Err("FileNotFoundError")
  ELSE Apply(expansion_of, StripAll(ReadLines(f[Path(base, ".12d")])))

----------------------------------------------------------------------------
(* new_displacements                                                        *)

\* mapping[x] is mapping[x + 1] here: the slot of orig for slot x of new
mapping == <<0, 1, 2, 0, 1, 2, 3, 4, 5, 3, 4, 5, 0, 1, 2>>

MappingHas(x) == x \in 0..(Len(mapping) - 1)

\* org[mapping[x]] - 1, the offset into orig
OrigIndex(org, x) == PyGet(org, mapping[x + 1]) - 1

\* the exception raised by orig[org[mapping[x]] - 1], or "none"
LookupErr(orig, org, x) ==
  IF ~MappingHas(x) THEN "KeyError"
  ELSE IF ~PyInRange(org, mapping[x + 1]) THEN "IndexError"
  ELSE IF ~PyInRange(orig, OrigIndex(org, x)) THEN "IndexError"
  ELSE "none"

Lookup(orig, org, x) == PyGet(orig, OrigIndex(org, x))

\* n in newdisp
Seen_Never(newdisp, n) == FALSE

Seen(newdisp, n) == n \in DOMAIN newdisp

\* newdisp[n] = v
Assign(newdisp, n, v) == (n :> v) @@ newdisp

\* the loops over the records from the ei-th on, from slot x of that record
RECURSIVE Scan(_, _, _, _, _)
Scan(orig, exp, ei, x, newdisp) ==
  IF ei > Len(exp) THEN Ok(newdisp)
  ELSE IF x >= Len(exp[ei].new) THEN Scan(orig, exp, ei + 1, 0, newdisp)
  ELSE
    LET n == exp[ei].new[x + 1]
        e == LookupErr(orig, exp[ei].orig, x)
    IN  IF Seen(newdisp, n) THEN Scan(orig, exp, ei, x + 1, newdisp)
        ELSE IF e # "none" THEN Err(e)
        ELSE Scan(orig, exp, ei, x + 1,
                  Assign(newdisp, n, Lookup(orig, exp[ei].orig, x)))

\* the keys in descending order
SortedKeys_Descending(newdisp) ==
  LET s == Sorted(DOMAIN newdisp) IN [k \in 1..Len(s) |-> s[Len(s) + 1 - k]]

\* idx = sorted(list(newdisp.keys()))
SortedKeys(newdisp) == Sorted(DOMAIN newdisp)

\* tuple((i, newdisp[i]) for i in idx)
Pairs(newdisp, idx) == Ok([k \in 1..Len(idx) |-> <<idx[k], newdisp[idx[k]]>>])

new_displacements(orig, exp) ==
  Apply(LAMBDA r : IF r.err # "none" THEN r
                   ELSE Apply(LAMBDA idx : Pairs(r.val, idx), SortedKeys(r.val)),
        Scan(orig, exp, 1, 0, <<>>))

----------------------------------------------------------------------------
(* splice                                                                   *)

DISP == <<"D", "I", "S", "P">>

MINUS3 == <<"-", "3">>

\* idx = (index of the first line containing "DISP") + 5
Anchor(dispIdx) == dispIdx + 5

\* the check done with "in" instead of startswith
AnchorOk_Contains(line) == Contains(Strip(line), MINUS3)

\* the check: lines[idx].strip().startswith('-3')
AnchorOk(line) == StartsWith(Strip(line), MINUS3)

\* f' -1{node:>10d}{dx: 11.5E}{dy: 11.5E}{dz: 11.5E}\n'
FormatRecord(node, d) ==
  <<" ", "-", "1">> \o FormatNode(node) \o FormatFloat(d[1])
    \o FormatFloat(d[2]) \o FormatFloat(d[3]) \o <<"\n">>

\* the records put after the anchor line instead of before it
Total_AfterAnchor(lines, idx, records) ==
  PySlice(lines, 0, idx + 1) \o records \o PySlice(lines, idx + 1, Len(lines))

\* total = before + splice + after
Total(lines, idx, records) ==
  PySlice(lines, 0, idx) \o records \o PySlice(lines, idx, Len(lines))

\* splice on the lines of the .frd file, one of which contains "DISP":
\* the text it writes, or the exception it raises before writing
spliced(lines, idx, nw) ==
  IF ~PyInRange(lines, idx) THEN Err("IndexError")
  ELSE IF ~AnchorOk(PyGet(lines, idx)) THEN ErrArg("ValueError", idx)
  ELSE IF \E i \in 1..Len(nw) : Len(nw[i][2]) # 3 THEN Err("ValueError")
  ELSE Ok(WriteLines(Total(lines, idx,
            [i \in 1..Len(nw) |-> FormatRecord(nw[i][1], nw[i][2])])))

splice_of(lines, nw) ==
  IF IndicesOf(lines, LAMBDA ln : Contains(ln, DISP)) = {} THEN Err("IndexError")
  ELSE Apply(LAMBDA idx : spliced(lines, idx, nw),
             Anchor(SetMin(IndicesOf(lines, LAMBDA ln : Contains(ln, DISP)))))

splice(f, base, nw) ==
  IF ~Exists(f, Path(base, ".frd")) THEN Err("FileNotFoundError")
  ELSE Apply(LAMBDA lines : splice_of(lines, nw), ReadLines(f[Path(base, ".frd")]))

----------------------------------------------------------------------------
(* The texts the files are made of                                          *)

\* a blank line
DatBlank ==
  <<"\n">>

\* the heading of the displacement block
DatMarker ==
  <<" ", "d", "i", "s", "p", "l", "a", "c", "e", "m", "e", "n", "t", "s",
    " ", "(", "v", "x", ")", "\n">>

\* the heading of the energy block
DatEnergy ==
  <<" ", "i", "n", "t", "e", "r", "n", "a", "l", " ", "e", "n", "e", "r",
    "g", "y", "\n">>

\* data lines: <node_id> <dx> <dy> <dz>
DatRowA ==
  <<" ", "1", " ", "1", ".", "5", "E", "-", "3", " ", "0", ".", " ", "-",
    "2", "\n">>

DatRowB ==
  <<"2", " ", "-", ".", "2", "5", " ", "1", "e", "2", " ", "7", "\n">>

DatRowC ==
  <<"3", " ", "4", " ", "5", " ", "6", "\n">>

\* a data line with a token that is no number
DatRowBad ==
  <<"3", " ", "0", ".", "5", " ", "o", ".", "5", " ", "1", "\n">>

\* data lines with values at the edges of the output format
DatRowBig ==
  <<"1", " ", "1", "e", "1", "0", "0", " ", "-", "0", " ", "1", "2", "3",
    "4", "5", "6", "5", "\n">>

DatRowTiny ==
  <<"2", " ", "-", "1", "E", "-", "1", "0", "0", " ", "9", "9", "9", "9",
    "9", "9", "6", "E", "9", "3", " ", "1", "2", "\n">>

DatRowNan ==
  <<"3", " ", "n", "a", "n", " ", "-", "i", "n", "f", " ", "1", ".", "2",
    "3", "4", "5", "6", "\n">>

DatRowRound ==
  <<"4", " ", "-", ".", "0", "0", "0", "0", "1", " ", "1", "0", "0", "0",
    ".", " ", "1", "2", "3", "4", "5", "7", "5", "\n">>

\* marker lines
ExpMarkerA ==
  <<"E", "L", "E", "M", "E", "N", "T", " ", "7", "\n">>

ExpMarkerB ==
  <<" ", "E", "L", "E", "M", "E", "N", "T", " ", "1", "2", " ", "x", "\n">>

\* lines of integers: six, and nine
ExpIntsA ==
  <<"1", " ", "2", " ", "3", " ", "4", " ", "5", " ", "6", "\n">>

ExpIntsB ==
  <<"7", " ", "8", " ", "9", " ", "1", "0", " ", "1", "1", " ", "1", "2",
    " ", "1", "3", " ", "1", "4", " ", "1", "5", "\n">>

\* the line between the original and the expanded nodes
ExpWords ==
  <<"o", "l", "d", " ", "n", "o", "d", "e", "s", "\n">>

\* lines of original node numbers
ExpOrigA ==
  <<"1", " ", "2", " ", "3", " ", "1", " ", "2", " ", "3", "\n">>

ExpOrigB ==
  <<"3", " ", "3", " ", "2", " ", "2", " ", "1", " ", "1", "\n">>

ExpOrigOdd ==
  <<"0", " ", "1", " ", "-", "1", " ", "4", " ", "2", "\n">>

ExpOrigFar ==
  <<"1", " ", "2", " ", "9", " ", "1", " ", "2", " ", "1", "\n">>

\* first lines of expanded node numbers
ExpNewA ==
  <<"1", "0", " ", "1", "1", " ", "1", "2", " ", "1", "3", " ", "1", "4",
    " ", "1", "5", " ", "1", "6", " ", "1", "7", "\n">>

ExpNewDup ==
  <<"1", "1", " ", "1", "0", " ", "1", "0", " ", "2", "0", "\n">>

\* second lines of expanded node numbers
ExpNewB ==
  <<"1", "8", " ", "1", "9", " ", "2", "0", " ", "2", "1", " ", "2", "2",
    " ", "2", "3", " ", "1", "0", "\n">>

ExpNewOne ==
  <<"5", "\n">>

ExpNewLong ==
  <<"1", " ", "2", " ", "3", " ", "4", " ", "5", " ", "6", " ", "7", " ",
    "8", "\n">>

\* expanded node numbers at the edges of the output format
ExpNewWide ==
  <<"4", "2", " ", "-", "5", "\n">>

ExpNewMax ==
  <<"2", "1", "4", "7", "4", "8", "3", "6", "4", "7", "\n">>

ExpNewMin ==
  <<"-", "1", "2", "3", "4", "5", "6", "7", "8", "9", "0", "\n">>

\* lines of a .frd file
FrdDisp ==
  <<" ", "-", "4", " ", " ", "D", "I", "S", "P", " ", "4", " ", "1", "\n">>

FrdEnd ==
  <<" ", "-", "3", "\n">>

FrdData ==
  <<" ", "-", "1", " ", "1", " ", "0", ".", "5", "\n">>

FrdTail ==
  <<"3", "-", "3">>

\* the text of an output file left by an earlier run
FrdOld ==
  <<"o", "l", "d", "\n">>

\* the sequences of at most n elements of V
SeqsUpTo(V, n) == UNION {[1..k -> V] : k \in 0..n}

MaxDatLines == 6

MaxExpLines == 7

MaxFrdLines == 6

MaxElems == 2

MaxRows == 3

DatVocab == {DatBlank, DatMarker, DatEnergy, DatRowA, DatRowB}

ExpVocab == {ExpMarkerA, ExpMarkerB, ExpIntsA, ExpIntsB}

FrdVocab == {FrdDisp, FrdEnd, FrdData, FrdTail}

\* a well-formed .dat file with the given data lines
DatOf(rows) ==
  WriteLines(<<DatMarker, DatBlank>> \o rows \o <<DatBlank, DatEnergy, DatBlank>>)

DatMain == DatOf(<<DatRowA, DatRowB, DatRowC>>)

\* one record of a .12d file
ExpBlock(o, a, b) == <<ExpMarkerA, o, ExpWords, a, b>>

ExpBlocks ==
  {ExpBlock(o, a, b) : o \in {ExpOrigA, ExpOrigB, ExpOrigOdd},
                       a \in {ExpNewA, ExpNewDup},
                       b \in {ExpNewB, ExpNewOne, ExpNewLong}}

RECURSIVE Flatten(_)
Flatten(ss) == IF ss = <<>> THEN <<>> ELSE Head(ss) \o Flatten(Tail(ss))

ExpMain == WriteLines(ExpBlock(ExpOrigB, ExpNewDup, ExpNewOne))

FrdMain ==
  WriteLines(<<FrdData, FrdDisp, FrdData, FrdData, FrdData, FrdData, FrdEnd,
               FrdData>>)

Base == "job"

----------------------------------------------------------------------------
(* main, one step per statement                                             *)

NoExc == [type |-> "none", arg |-> NoArg]

Unset == <<>>

Running == -1

USAGE == "__doc__"

\* the test made on the argument list without the script name
MissingArgument_OffByOne(a) == Len(a) < 1

\* len(sys.argv) < 2
MissingArgument(a) == Len(a) < 2

\* what a call leaves in raised
Raised(r) == [type |-> r.err, arg |-> r.arg]

\* the output opened for writing before the .frd file is read and checked
Written_OpenFirst(f, base, r) ==
  [p \in DOMAIN f \cup {Path(base, "-post.frd")} |->
     IF p = Path(base, "-post.frd") THEN r.val ELSE f[p]]

\* the file system after splice: the output is opened and written only
\* when nothing was raised before
Written(f, base, r) ==
  IF r.err # "none" THEN f
  ELSE [p \in DOMAIN f \cup {Path(base, "-post.frd")} |->
          IF p = Path(base, "-post.frd") THEN r.val ELSE f[p]]

MainStart ==
  /\ pc = "start"
  /\ IF MissingArgument(argv)
       THEN /\ stdout' = Append(stdout, USAGE)
            /\ exitcode' = 1
            /\ pc' = "exited"
       ELSE /\ pc' = "read_displacements"
            /\ UNCHANGED <<stdout, exitcode>>
  /\ UNCHANGED <<argv, fs, fs0, orig_disp, expansion, new, raised, log>>

\* sys.argv[1]
Arg1Ok == Len(argv) >= 2

StepReadDisplacements ==
  /\ pc = "read_displacements"
  /\ log' = Append(log, "read_displacements")
  /\ \E r \in {IF Arg1Ok THEN read_displacements(fs, argv[2])
                ELSE Err("IndexError")} :
         IF r.err = "none"
           THEN /\ orig_disp' = r.val
                /\ pc' = "read_expansion"
                /\ UNCHANGED <<raised, exitcode>>
           ELSE /\ raised' = Raised(r)
                /\ exitcode' = 1
                /\ pc' = "raised"
                /\ UNCHANGED orig_disp
  /\ UNCHANGED <<argv, fs, fs0, expansion, new, stdout>>

StepReadExpansion ==
  /\ pc = "read_expansion"
  /\ log' = Append(log, "read_expansion")
  /\ \E r \in {read_expansion(fs, argv[2])} :
         IF r.err = "none"
           THEN /\ expansion' = r.val
                /\ pc' = "new_displacements"
                /\ UNCHANGED <<raised, exitcode>>
           ELSE /\ raised' = Raised(r)
                /\ exitcode' = 1
                /\ pc' = "raised"
                /\ UNCHANGED expansion
  /\ UNCHANGED <<argv, fs, fs0, orig_disp, new, stdout>>

StepNewDisplacements ==
  /\ pc = "new_displacements"
  /\ log' = Append(log, "new_displacements")
  /\ \E r \in {new_displacements(orig_disp, expansion)} :
         IF r.err = "none"
           THEN /\ new' = r.val
                /\ pc' = "splice"
                /\ UNCHANGED <<raised, exitcode>>
           ELSE /\ raised' = Raised(r)
                /\ exitcode' = 1
                /\ pc' = "raised"
                /\ UNCHANGED new
  /\ UNCHANGED <<argv, fs, fs0, orig_disp, expansion, stdout>>

StepSplice ==
  /\ pc = "splice"
  /\ \E r \in {splice(fs, argv[2], new)} :
         /\ fs' = Written(fs, argv[2], r)
         /\ IF r.err = "none"
              THEN /\ log' = log \o <<"splice", "write">>
                   /\ exitcode' = 0
                   /\ pc' = "done"
                   /\ UNCHANGED raised
              ELSE /\ log' = Append(log, "splice")
                   /\ raised' = Raised(r)
                   /\ exitcode' = 1
                   /\ pc' = "raised"
  /\ UNCHANGED <<argv, fs0, orig_disp, expansion, new, stdout>>

----------------------------------------------------------------------------
(* The initial states                                                       *)

\* a file system holding the given files of Base
Files(dat, exp, frd, out) ==
  [p \in {Path(Base, x[1]) : x \in {y \in {<<".dat", dat>>, <<".12d", exp>>,
                                           <<".frd", frd>>, <<"-post.frd", out>>}
                                     : y[2] # <<"absent">>}} |->
     CASE p[2] = ".dat" -> dat [] p[2] = ".12d" -> exp
       [] p[2] = ".frd" -> frd [] OTHER -> out]

Absent == <<"absent">>

\* the state of main on entry, for the given arguments and files
Entry(a, f) ==
  /\ argv = a
  /\ fs = f
  /\ fs0 = f
  /\ pc = "start"
  /\ orig_disp = Unset
  /\ expansion = Unset
  /\ new = Unset
  /\ raised = NoExc
  /\ exitcode = Running
  /\ stdout = <<>>
  /\ log = <<>>

\* the state of main before read_displacements
AtReadDisplacements(f) ==
  /\ argv = <<"post.py", Base>>
  /\ fs = f
  /\ fs0 = f
  /\ pc = "read_displacements"
  /\ orig_disp = Unset
  /\ expansion = Unset
  /\ new = Unset
  /\ raised = NoExc
  /\ exitcode = Running
  /\ stdout = <<>>
  /\ log = <<>>

\* what the stages before splice yield for the files f, each stage called
\* only if the one before it returned
Upstream(f) ==
  Apply(LAMBDA od :
    Apply(LAMBDA ex :
            [od |-> od, ex |-> ex,
             nw |-> IF ex.err = "none" THEN new_displacements(od.val, ex.val)
                    ELSE Err("not called")],
          IF od.err = "none" THEN read_expansion(f, Base) ELSE Err("not called")),
    read_displacements(f, Base))

\* a .12d file without a record
ExpNone == WriteLines(<<ExpWords>>)

UpMain == Upstream(Files(DatMain, ExpMain, Absent, Absent))

UpNone == Upstream(Files(DatMain, ExpNone, Absent, Absent))

\* the state of main before read_expansion, read_displacements having
\* returned up.od
AtReadExpansion(f, up) ==
  /\ up.od.err = "none"
  /\ argv = <<"post.py", Base>>
  /\ fs = f
  /\ fs0 = f
  /\ pc = "read_expansion"
  /\ orig_disp = up.od.val
  /\ expansion = Unset
  /\ new = Unset
  /\ raised = NoExc
  /\ exitcode = Running
  /\ stdout = <<>>
  /\ log = <<"read_displacements">>

\* the state of main before new_displacements, the readers having returned
\* up.od and up.ex
AtNewDisplacements(f, up) ==
  /\ up.ex.err = "none"
  /\ argv = <<"post.py", Base>>
  /\ fs = f
  /\ fs0 = f
  /\ pc = "new_displacements"
  /\ orig_disp = up.od.val
  /\ expansion = up.ex.val
  /\ new = Unset
  /\ raised = NoExc
  /\ exitcode = Running
  /\ stdout = <<>>
  /\ log = <<"read_displacements", "read_expansion">>

\* the state of main before splice, the three stages before it having
\* returned up.od, up.ex and up.nw
AtSplice(f, up) ==
  /\ up.nw.err = "none"
  /\ argv = <<"post.py", Base>>
  /\ fs = f
  /\ fs0 = f
  /\ pc = "splice"
  /\ orig_disp = up.od.val
  /\ expansion = up.ex.val
  /\ new = up.nw.val
  /\ raised = NoExc
  /\ exitcode = Running
  /\ stdout = <<>>
  /\ log = <<"read_displacements", "read_expansion", "new_displacements">>

\* the whole program: with and without the argument, each file absent,
\* well-formed or malformed, an output of an earlier run present or not
Init ==
  \E a \in {<<"post.py">>, <<"post.py", Base>>},
     dat \in {Absent, DatMain, DatOf(<<DatRowA, DatRowBad>>),
              WriteLines(<<DatMarker, DatBlank, DatRowA>>)},
     exp \in {Absent, ExpMain, WriteLines(ExpBlock(ExpOrigFar, ExpNewA, ExpNewB)),
              WriteLines(<<ExpMarkerA, ExpOrigA, ExpWords, ExpNewA>>)},
     frd \in {Absent, FrdMain, WriteLines(<<FrdDisp, FrdData, FrdData, FrdData,
                                            FrdData, FrdData, FrdEnd>>)},
     out \in {Absent, FrdOld} :
    Entry(a, Files(dat, exp, frd, out))

Next ==
  \/ MainStart
  \/ StepReadDisplacements
  \/ StepReadExpansion
  \/ StepNewDisplacements
  \/ StepSplice

Spec == Init /\ [][Next]_vars

\* read_displacements on the .dat files of at most MaxDatLines lines
InitDat ==
  \E ls \in SeqsUpTo(DatVocab, MaxDatLines) :
    AtReadDisplacements(Files(WriteLines(ls), Absent, Absent, Absent))

SpecDat == InitDat /\ [][StepReadDisplacements]_vars

\* read_expansion on the .12d files of at most MaxExpLines lines
InitExp ==
  \E ls \in SeqsUpTo(ExpVocab, MaxExpLines) :
    AtReadExpansion(Files(DatMain, WriteLines(ls), Absent, Absent), UpMain)

SpecExp == InitExp /\ [][StepReadExpansion]_vars

\* new_displacements on what the readers return for a .dat file of three
\* nodes and the .12d files of at most MaxElems records
InitNew ==
  \E bs \in SeqsUpTo(ExpBlocks, MaxElems) :
    \E f \in {Files(DatMain, WriteLines(Flatten(bs)), Absent, Absent)} :
      \E up \in {Upstream(f)} : AtNewDisplacements(f, up)

SpecNew == InitNew /\ [][StepNewDisplacements]_vars

\* splice on the .frd files of at most MaxFrdLines lines, and on a
\* well-formed .frd file with displacements of at most MaxRows nodes whose
\* values and node numbers lie at the edges of the output format
InitSplice ==
  \/ \E ls \in SeqsUpTo(FrdVocab, MaxFrdLines), out \in {Absent, FrdOld} :
       AtSplice(Files(DatMain, ExpMain, WriteLines(ls), out), UpMain)
  \/ \E ls \in SeqsUpTo(FrdVocab, MaxFrdLines), out \in {Absent, FrdOld} :
       AtSplice(Files(DatMain, ExpNone, WriteLines(ls), out), UpNone)
  \/ \E rows \in SeqsUpTo({DatRowBig, DatRowTiny, DatRowNan, DatRowRound}, MaxRows),
        a \in {ExpNewWide, ExpNewDup},
        b \in {ExpNewMax, ExpNewMin, ExpNewOne} :
       \E f \in {Files(DatOf(rows), WriteLines(ExpBlock(ExpOrigA, a, b)), FrdMain, Absent)} :
         \E up \in {Upstream(f)} : AtSplice(f, up)

SpecSplice == InitSplice /\ [][StepSplice]_vars

----------------------------------------------------------------------------
(* new_displacements: what is checked of it, under SpecNew                  *)

\* new_displacements has returned
NewReturned == pc = "splice"

\* the places (record, slot) where new-node id K occurs in the records
Occurrences(K) ==
  {p \in UNION {{<<ei, x>> : x \in 0..(Len(expansion[ei].new) - 1)}
                 : ei \in 1..Len(expansion)}
     : expansion[p[1]].new[p[2] + 1] = K}

\* the first of them, records in sequence order and slots ascending
FirstOccurrence(K) ==
  CHOOSE p \in Occurrences(K) :
    \A q \in Occurrences(K) : p[1] < q[1] \/ (p[1] = q[1] /\ p[2] <= q[2])

\* the table of slots as the documentation of the propagator gives it
SlotTable == <<0, 1, 2, 0, 1, 2, 3, 4, 5, 3, 4, 5, 0, 1, 2>>

\* the original node number that the occurrence p stands for
NodeAt(p) == PyGet(expansion[p[1]].orig, SlotTable[p[2] + 1])

\* whether the occurrence p stands for an original node at all
NodeDefinedAt(p) ==
  /\ p[2] < Len(SlotTable)
  /\ PyInRange(expansion[p[1]].orig, SlotTable[p[2] + 1])
  /\ PyInRange(orig_disp, NodeAt(p) - 1)

\* C1: first-seen-wins.  When new_displacements returns, the displacement
\* paired with every new-node id K is orig[e.orig[mapping[x]] - 1] for the
\* first occurrence (e, x) of K, records scanned in sequence order and slots
\* in ascending order; no later occurrence of K changes it.
C1_FirstSeenWins ==
  NewReturned =>
    \A i \in 1..Len(new) :
      new[i][2] = PyGet(orig_disp, NodeAt(FirstOccurrence(new[i][1])) - 1)

\* a returned result with an id that occurs again, in a later record and in
\* a later slot of the same record, where it stands for another displacement
C1_Witness ==
  /\ NewReturned
  /\ \E i \in 1..Len(new) :
       LET K == new[i][1]
           late == {q \in Occurrences(K) :
                      /\ NodeDefinedAt(q)
                      /\ PyGet(orig_disp, NodeAt(q) - 1) # new[i][2]}
       IN  /\ \E q \in late : q[1] > FirstOccurrence(K)[1]
           /\ \E q \in late : q[1] = FirstOccurrence(K)[1]

\* the new-node ids that occur in the records
IdsSeen ==
  UNION {{expansion[ei].new[x] : x \in 1..Len(expansion[ei].new)}
          : ei \in 1..Len(expansion)}

\* C2: when new_displacements returns, the result is in strictly ascending
\* order of node id, and its node ids are exactly the distinct new-node ids
\* that occur in the records: none missing, none added, none twice.
C2_SortedExactIds ==
  NewReturned =>
    /\ \A i \in 1..(Len(new) - 1) : new[i][1] < new[i + 1][1]
    /\ {new[i][1] : i \in 1..Len(new)} = IdsSeen

\* a returned result of several ids from records that repeat ids and do not
\* list them in ascending order
C2_Witness ==
  /\ NewReturned
  /\ Len(new) >= 3
  /\ \E ei \in 1..Len(expansion) :
       /\ Len(expansion[ei].new) > Cardinality(IdsSeen) - 3
       /\ \E x \in 1..(Len(expansion[ei].new) - 1) :
            expansion[ei].new[x] > expansion[ei].new[x + 1]
  /\ \E K \in IdsSeen : Cardinality(Occurrences(K)) >= 2

\* C10: new_displacements returns only if every original node id it looks
\* up for a first-seen new-node id is a node number, one of 1..len(orig).
C10_OnlyNodeNumbers ==
  NewReturned =>
    \A i \in 1..Len(new) :
      NodeAt(FirstOccurrence(new[i][1])) \in 1..Len(orig_disp)

----------------------------------------------------------------------------
(* read_displacements: what is checked of it, under SpecDat                 *)

DatLines == StripAll(ReadLines(fs[Path(Base, ".dat")]))

\* some line contains sub
SomeWith(lines, sub) == \E k \in 1..Len(lines) : Contains(lines[k], sub)

\* the 0-based index of the first line that contains sub
FirstWith(lines, sub) ==
  SetMin({n \in 1..Len(lines) : Contains(lines[n], sub)}) - 1

\* a data line: <node_id> <dx> <dy> <dz>
IsDataLine(ln) ==
  \A t \in {Split(ln)} :
    Len(t) = 4 /\ IntOk(t[1]) /\ \A j \in 2..4 : FloatOk(t[j])

\* the three values of a data line
DataValues(ln) ==
  Apply(LAMBDA t : <<FloatVal(t[2]), FloatVal(t[3]), FloatVal(t[4])>>, Split(ln))

\* lines has a "displacements" line and an "energy" line
DatHeadings(lines) ==
  SomeWith(lines, DISPLACEMENTS) /\ SomeWith(lines, ENERGY)

\* the heading at d is followed by a header line and then n data lines, the
\* (n+1)-th line not being one, and the first "energy" line comes later
DatBlock(lines, d, e, n) ==
  /\ e >= d + 2 + n
  /\ \A i \in 1..n : IsDataLine(lines[d + 2 + i])
  /\ ~IsDataLine(lines[d + 3 + n])

\* the heading at d is followed by a header line, then n data lines, then
\* one line, then the first "energy" line
DatBlockOneLine(lines, d, e, n) ==
  /\ e = d + 3 + n
  /\ \A i \in 1..n : IsDataLine(lines[d + 2 + i])

\* read_displacements has returned the values of those n data lines, in order
ReturnedRows(lines, d, n) ==
  /\ pc = "read_expansion"
  /\ orig_disp = [i \in 1..n |-> DataValues(lines[d + 2 + i])]

DatCalled == pc # "read_displacements"

\* C6, as claimed: for every .dat file whose first "displacements" line is
\* followed by a header line, then N data lines, and later by its first
\* "energy" line, read_displacements returns exactly the N triples of the
\* data lines, in file order.
C6_AnyGap ==
  DatCalled =>
    \A lines \in {DatLines} :
      DatHeadings(lines) =>
        \A d \in {FirstWith(lines, DISPLACEMENTS)}, e \in {FirstWith(lines, ENERGY)} :
          \A n \in 0..Len(lines) :
            DatBlock(lines, d, e, n) => ReturnedRows(lines, d, n)

\* C6, amended: the same when exactly one line lies between the last data
\* line and the first "energy" line.
C6_OneLineGap ==
  DatCalled =>
    \A lines \in {DatLines} :
      DatHeadings(lines) =>
        \A d \in {FirstWith(lines, DISPLACEMENTS)}, e \in {FirstWith(lines, ENERGY)} :
          \A n \in 0..Len(lines) :
            DatBlockOneLine(lines, d, e, n) => ReturnedRows(lines, d, n)

\* a file of two different data lines, one line and the energy heading
C6_Witness ==
  /\ DatCalled
  /\ \E lines \in {DatLines} :
       /\ DatHeadings(lines)
       /\ \E d \in {FirstWith(lines, DISPLACEMENTS)}, e \in {FirstWith(lines, ENERGY)} :
         /\ DatBlockOneLine(lines, d, e, 2)
         /\ ReturnedRows(lines, d, 2)
         /\ orig_disp[1] # orig_disp[2]

----------------------------------------------------------------------------
(* read_expansion: what is checked of it, under SpecExp                     *)

ExpLines == StripAll(ReadLines(fs[Path(Base, ".12d")]))

\* the 0-based indices of the lines that start with "ELEMENT", ascending
Markers(lines) ==
  Sorted({n \in 0..(Len(lines) - 1) : StartsWith(lines[n + 1], ELEMENT)})

\* the integers of a line
IntsOf(ln) == Apply(LAMBDA t : [j \in 1..Len(t) |-> IntVal(t[j])], Split(ln))

ExpReturned == pc = "new_displacements"

\* one record per marker, in file order, read from the lines at the fixed
\* offsets 1, 3 and 4 from the marker, line 2 being left out
RecordsAsRead(lines, ms) ==
  /\ Len(expansion) = Len(ms)
  /\ \A k \in 1..Len(ms) :
       /\ expansion[k].element = IntVal(Split(lines[ms[k] + 1])[2])
       /\ expansion[k].orig = IntsOf(lines[ms[k] + 2])
       /\ expansion[k].new = IntsOf(lines[ms[k] + 4]) \o IntsOf(lines[ms[k] + 5])

\* C7, as claimed: whenever read_expansion returns, it returns one record
\* per line that starts with "ELEMENT", in file order, with element the
\* second token of the marker line i, orig the integers of line i+1 and new
\* those of lines i+3 and i+4, and every record has 6 and 15 of them.
C7_AlwaysSixAndFifteen ==
  ExpReturned =>
    \A lines \in {ExpLines} : \A ms \in {Markers(lines)} :
      /\ RecordsAsRead(lines, ms)
      /\ \A k \in 1..Len(expansion) :
           Len(expansion[k].orig) = 6 /\ Len(expansion[k].new) = 15

\* C7, amended: the same, with orig and new as long as the lines they are
\* read from: 6 and 15 exactly when line i+1 holds 6 integers and lines i+3
\* and i+4 together hold 15.
C7_AsLongAsTheLines ==
  ExpReturned =>
    \A lines \in {ExpLines} : \A ms \in {Markers(lines)} :
      /\ RecordsAsRead(lines, ms)
      /\ \A k \in 1..Len(expansion) :
           /\ Len(expansion[k].orig) = Len(Split(lines[ms[k] + 2]))
           /\ Len(expansion[k].new) = Len(Split(lines[ms[k] + 4]))
                                        + Len(Split(lines[ms[k] + 5]))

\* two records with different element numbers, each of 6 and 15 nodes
C7_Witness ==
  /\ ExpReturned
  /\ Len(expansion) = 2
  /\ expansion[1].element # expansion[2].element
  /\ \A k \in 1..2 : Len(expansion[k].orig) = 6 /\ Len(expansion[k].new) = 15

----------------------------------------------------------------------------
(* splice: what is checked of it, under SpecSplice                          *)

\* the lines of the .frd file, and of the output file, terminators kept
FrdLines == ReadLines(fs0[Path(Base, ".frd")])

OutLines == ReadLines(fs[Path(Base, "-post.frd")])

\* the index of the first line containing "DISP", plus 5 (0-based)
AnchorOf(lines) == FirstWith(lines, DISP) + 5

SpliceCalled == pc # "splice"

SpliceDone == pc = "done"

\* C3: when splice succeeds on a .frd file of L lines with M pairs, the
\* output file has L + M lines: the lines before the anchor, then one
\* formatted record per pair in the order of the pairs, then the anchor
\* line and the lines after it, every line of the .frd file unmodified;
\* the .frd file itself is left as it was.
C3_RecordsBeforeAnchor ==
  SpliceDone =>
    \A lines \in {FrdLines}, out \in {OutLines} : \A a \in {AnchorOf(lines)} :
      /\ Len(out) = Len(lines) + Len(new)
      /\ \A k \in 1..a : out[k] = lines[k]
      /\ \A i \in 1..Len(new) : out[a + i] = FormatRecord(new[i][1], new[i][2])
      /\ \A k \in (a + 1)..Len(lines) : out[k + Len(new)] = lines[k]
      /\ fs[Path(Base, ".frd")] = fs0[Path(Base, ".frd")]

\* several records spliced into a file with lines before and after the
\* anchor line
C3_Witness ==
  /\ SpliceDone
  /\ Len(new) >= 2
  /\ \E lines \in {FrdLines} :
       /\ FirstWith(lines, DISP) >= 1
       /\ Len(lines) >= AnchorOf(lines) + 2
       /\ Len(OutLines) = Len(lines) + Len(new)

\* C4: if, once stripped, the line at the anchor index does not start with
\* "-3", splice raises the ValueError that carries the anchor index, and
\* the files are as they were before the call: no output file is created
\* or overwritten.
C4_BadAnchorRaises ==
  SpliceCalled =>
    \A lines \in {FrdLines} :
      SomeWith(lines, DISP) =>
        \A a \in {AnchorOf(lines)} :
          (a < Len(lines) /\ ~StartsWith(Strip(lines[a + 1]), MINUS3))
            => /\ pc = "raised"
               /\ raised = [type |-> "ValueError", arg |-> a]
               /\ fs = fs0

\* the check fails on a line that holds "-3" but does not start with it,
\* with the output of an earlier run in place
C4_Witness ==
  /\ pc = "raised"
  /\ raised.type = "ValueError"
  /\ Exists(fs0, Path(Base, "-post.frd"))
  /\ fs = fs0
  /\ \E lines \in {FrdLines} :
       /\ SomeWith(lines, DISP)
       /\ raised.arg = AnchorOf(lines)
       /\ Contains(lines[AnchorOf(lines) + 1], MINUS3)

\* the characters of an integer
IntChars(n) == IF n < 0 THEN <<"-">> \o NatChars(0 - n) ELSE NatChars(n)

\* at most 10 digits
TenDigits(n) == NumDigits(IF n < 0 THEN 0 - n ELSE n) <= 10

\* a space or "-", d.ddddd, "E", a sign and at least two digits
IsSciField(f) ==
  /\ Len(f) >= Precision + 7
  /\ f[1] \in {" ", "-"}
  /\ f[2] \in Digits
  /\ f[3] = "."
  /\ \A k \in 4..(Precision + 3) : f[k] \in Digits
  /\ f[Precision + 4] = "E"
  /\ f[Precision + 5] \in {"+", "-"}
  /\ \A k \in (Precision + 6)..Len(f) : f[k] \in Digits

\* NAN, INF or -INF at the right of FieldWidth columns
IsWordField(f) ==
  /\ Len(f) = FieldWidth
  /\ Strip(f) \in {<<"N", "A", "N">>, <<"I", "N", "F">>, <<"-", "I", "N", "F">>}

\* a finite value whose exponent is written with two digits
TwoDigitExponent(v) ==
  v.k = "fin" /\ SciExp(v.m, v.e) > -100 /\ SciExp(v.m, v.e) < 100

\* the length of a record whose fields all have their usual widths
RecordLength == 3 + NodeWidth + 3 * (FieldWidth + 1) + 1

----------------------------------------------------------------------------
(* main: what is checked of it, under Spec                                  *)

Stages == <<"read_displacements", "read_expansion", "new_displacements",
            "splice", "write">>

\* C5: the output file is written only after read_displacements,
\* read_expansion, new_displacements and the check of splice have returned,
\* in that order, and a run in which anything is raised leaves the files as
\* they were: the output file neither created nor modified.
C5_WriteComesLast ==
  /\ Len(log) <= Len(Stages)
  /\ log = SubSeq(Stages, 1, Len(log))
  /\ (\E k \in 1..Len(log) : log[k] = "write")
       => pc = "done" /\ raised = NoExc /\ exitcode = 0
  /\ fs # fs0 => \E k \in 1..Len(log) : log[k] = "write"
  /\ pc = "raised" => fs = fs0 /\ raised # NoExc /\ exitcode = 1

\* a run that goes through the four stages and replaces the output of an
\* earlier run
C5_Witness ==
  /\ pc = "done"
  /\ log = Stages
  /\ Exists(fs0, Path(Base, "-post.frd"))
  /\ fs[Path(Base, "-post.frd")] # fs0[Path(Base, "-post.frd")]

\* C8: without a base-name argument, main prints the usage text and exits
\* with status 1, no stage having been called: no file is opened and the
\* files are as they were.
C8_UsageAndExit ==
  (Len(argv) < 2 /\ pc # "start") =>
    /\ pc = "exited"
    /\ stdout = <<USAGE>>
    /\ exitcode = 1
    /\ log = <<>>
    /\ fs = fs0
    /\ orig_disp = Unset /\ expansion = Unset /\ new = Unset
    /\ raised = NoExc

\* the usage exit with the input files of a complete run in place
C8_Witness ==
  /\ pc = "exited"
  /\ Len(argv) < 2
  /\ stdout = <<USAGE>>
  /\ Exists(fs, Path(Base, ".dat"))
  /\ Exists(fs, Path(Base, ".12d"))
  /\ Exists(fs, Path(Base, ".frd"))
  /\ ~Exists(fs, Path(Base, "-post.frd"))

====
